---------------------------- MODULE Spec2Model ----------------------------
(***************************************************************************)
(* Merkle tree of the go-principals repository (merke_tree.go):            *)
(* Transaction.String/Hash, NewMerkleNode, NewMerkleTree, GenerateProof,   *)
(* VerifyProof.                                                            *)
(*                                                                         *)
(* Byte strings ([]byte and string) are sequences of byte values 0..255.   *)
(* A nil slice and an empty slice are both <<>>.  A pointer to a           *)
(* MerkleNode is an index into heap, 0 being nil.  A *MerkleTree or        *)
(* *MerkleProof that may be nil is a sequence of length 0 (nil) or 1.      *)
(*                                                                         *)
(* sha256.Sum256 is modelled as a collision-free function: the input       *)
(* wrapped between the bytes 40 and 41.  Two inputs have the same digest   *)
(* exactly when they are the same byte string.  The concatenation the code *)
(* hashes is real byte concatenation.                                      *)
(***************************************************************************)
EXTENDS Integers, Sequences, FiniteSets, TLC

VARIABLES heap, tree, treeErr, proof, proofErr, proofIdx, vcall, vres,
          other, otherErr, calls, serial, account, applyErr

vars == <<heap, tree, treeErr, proof, proofErr, proofIdx, vcall, vres,
          other, otherErr, calls, serial, account, applyErr>>

\* The state outside the sequential Merkle tree example: the calls running
\* concurrently on the tree, the transactions serialized, and the ledger
\* account of generating-keypair/main.go.
restVars == <<calls, serial, account, applyErr>>

\* Largest number of transactions given to NewMerkleTree under Spec, for inputs
\* in which transactions may repeat.
MaxLeaves == 5

\* Largest number of transactions under Spec for inputs of distinct transactions.
MaxDistinctLeaves == 8

\* Largest number of transactions under SpecTamper: for inputs in which
\* transactions may repeat, and for inputs of distinct transactions.
MaxTamperPatternLeaves == 2

MaxTamperLeaves == 3

\* Largest number of transactions of either tree under SpecPair.
MaxPairLeaves == 4

\* Largest number of Transaction.Hash calls under SpecSerial.
MaxHashed == 2

\* Largest absolute Amount of a ledger transaction, and largest number of
\* transactions an Account takes, under SpecLedger.
MaxAmount == 2

MaxApplied == 3

\* Largest number of transactions, and largest number of calls running on the
\* tree, under SpecConc.
MaxConcLeaves == 3

MaxCalls == 2

NIL == 0

NoError == ""

Last(s) == s[Len(s)]

--------------------------------------------------------------------------
(* Byte-level helpers *)

\* crypto/sha256.Sum256, collision-free: the digest determines the input.
Sha256(data) == <<40>> \o data \o <<41>>

\* One hex digit of encoding/hex: "0123456789abcdef"[d] as its ASCII code.
HexDigit(d) == IF d < 10 THEN 48 + d ELSE 87 + d

\* encoding/hex.EncodeToString: two hex digits per byte, high nibble first
\* (dst[2j] is the high nibble of src[j], dst[2j+1] the low one).
HexEncodeToString(src) ==
    [k \in 1..(2 * Len(src)) |->
        IF k % 2 = 1 THEN HexDigit(src[(k + 1) \div 2] \div 16)
                     ELSE HexDigit(src[k \div 2] % 16)]

RECURSIVE Decimal(_)
\* The decimal digits of a natural number, as fmt prints them.
Decimal(n) ==
    IF n < 10 THEN <<48 + n>> ELSE Decimal(n \div 10) \o <<48 + (n % 10)>>

\* fmt's %.2f of an amount held in thousandths (Amount = m / 1000, m >= 0 and
\* m not ending in the digit 5, where the binary value decides the rounding):
\* rounded to the nearest hundredth, integer part, '.', two digits.
FormatFloat2(m) ==
    LET c == (m + 5) \div 10
    IN  Decimal(c \div 100) \o <<46>> \o <<48 + ((c % 100) \div 10), 48 + (c % 10)>>

--------------------------------------------------------------------------
(* Transaction *)

\* Transaction.String: fmt.Sprintf("%s:%s->%s:%.2f", ID, From, To, Amount).
String(t) ==
    t.ID \o <<58>> \o t.From \o <<45, 62>> \o t.To \o <<58>> \o FormatFloat2(t.Amount)

\* Transaction.Hash: SHA256 of the string representation.
TxHash(t) == Sha256(String(t))

\* The k-th transaction of the inputs: ID "k", From "A", To "B", Amount k.50.
Tx(k) == [ID |-> Decimal(k), From |-> <<65>>, To |-> <<66>>, Amount |-> 1000 * k + 500]

--------------------------------------------------------------------------
(* MerkleNode and NewMerkleTree *)

\* NewMerkleNode with the leaf data hashed once more instead of used directly.
NewMerkleNodeRehash(h, left, right, data) ==
    LET prevHashes == (IF left # NIL THEN h[left].Hash ELSE <<>>)
                          \o (IF right # NIL THEN h[right].Hash ELSE <<>>)
        hash == IF left = NIL /\ right = NIL THEN Sha256(data) ELSE Sha256(prevHashes)
        node == [Left |-> left, Right |-> right, Hash |-> hash]
    IN  [heap |-> Append(h, node), ptr |-> Len(h) + 1]

\* NewMerkleNode with the left child's hash appended twice and the right
\* child's hash never.
NewMerkleNodeLeftTwice(h, left, right, data) ==
    LET prevHashes == (IF left # NIL THEN h[left].Hash ELSE <<>>)
                          \o (IF right # NIL THEN h[left].Hash ELSE <<>>)
        hash == IF left = NIL /\ right = NIL THEN data ELSE Sha256(prevHashes)
        node == [Left |-> left, Right |-> right, Hash |-> hash]
    IN  [heap |-> Append(h, node), ptr |-> Len(h) + 1]

\* NewMerkleNode: allocates a node; a leaf keeps data as its hash, an internal
\* node hashes the concatenation of the children's hashes.
NewMerkleNode(h, left, right, data) ==
    LET prevHashes == (IF left # NIL THEN h[left].Hash ELSE <<>>)
                          \o (IF right # NIL THEN h[right].Hash ELSE <<>>)
        hash == IF left = NIL /\ right = NIL THEN data ELSE Sha256(prevHashes)
        node == [Left |-> left, Right |-> right, Hash |-> hash]
    IN  [heap |-> Append(h, node), ptr |-> Len(h) + 1]

RECURSIVE TreeLeafLoop(_, _, _, _, _)
\* NewMerkleTree, "Create leaf nodes from transactions".
TreeLeafLoop(h, transactions, k, nodes, leaves) ==
    IF k > Len(transactions)
    THEN [heap |-> h, nodes |-> nodes, leaves |-> leaves]
    ELSE LET r == NewMerkleNode(h, NIL, NIL, TxHash(transactions[k]))
         IN  TreeLeafLoop(r.heap, transactions, k + 1,
                          Append(nodes, r.ptr), Append(leaves, r.ptr))

\* NewMerkleTree, "If odd number of nodes, duplicate the last one".
TreePadLeaves(nodes) ==
    IF Len(nodes) % 2 # 0 THEN Append(nodes, Last(nodes)) ELSE nodes

\* NewMerkleTree, "If odd number of nodes at this level, duplicate the last one".
TreePadLevel(level) ==
    IF Len(level) % 2 # 0 /\ Len(level) > 1 THEN Append(level, Last(level)) ELSE level

RECURSIVE TreePairLoop(_, _, _, _)
\* NewMerkleTree, inner loop: for i := 0; i < len(nodes); i += 2 (i is 0-based).
TreePairLoop(h, nodes, i, level) ==
    IF i >= Len(nodes)
    THEN [heap |-> h, level |-> level]
    ELSE LET r == NewMerkleNode(h, nodes[i + 1], nodes[i + 2], <<>>)
         IN  TreePairLoop(r.heap, nodes, i + 2, Append(level, r.ptr))

RECURSIVE TreeLevelLoop(_, _, _)
\* NewMerkleTree, "Build the tree level by level": for len(nodes) > 1.  levels
\* collects the node list the loop holds at each level, for inspection.
TreeLevelLoop(h, nodes, levels) ==
    IF Len(nodes) > 1
    THEN LET r == TreePairLoop(h, nodes, 0, <<>>)
             next == TreePadLevel(r.level)
         IN  TreeLevelLoop(r.heap, next, Append(levels, next))
    ELSE [heap |-> h, nodes |-> nodes, levels |-> levels]

\* NewMerkleTree with the empty check written as len(transactions) <= 1.
NewMerkleTreeRejectsOne(h, transactions) ==
    IF Len(transactions) <= 1
    THEN [heap |-> h, tree |-> <<>>,
          err |-> "cannot create Merkle tree with no transactions",
          levels |-> <<>>]
    ELSE LET l == TreeLeafLoop(h, transactions, 1, <<>>, <<>>)
             nodes == TreePadLeaves(l.nodes)
             b == TreeLevelLoop(l.heap, nodes, <<nodes>>)
         IN  [heap |-> b.heap,
              tree |-> <<[Root |-> b.nodes[1],
                          Transactions |-> transactions,
                          Leaves |-> l.leaves]>>,
              err |-> NoError,
              levels |-> b.levels]

\* NewMerkleTree: (tree, error) and the heap after its allocations; levels is
\* the function's local node list at each level, unreachable after it returns.
NewMerkleTree(h, transactions) ==
    IF Len(transactions) = 0
    THEN [heap |-> h, tree |-> <<>>,
          err |-> "cannot create Merkle tree with no transactions",
          levels |-> <<>>]
    ELSE LET l == TreeLeafLoop(h, transactions, 1, <<>>, <<>>)
             nodes == TreePadLeaves(l.nodes)
             b == TreeLevelLoop(l.heap, nodes, <<nodes>>)
         IN  [heap |-> b.heap,
              tree |-> <<[Root |-> b.nodes[1],
                          Transactions |-> transactions,
                          Leaves |-> l.leaves]>>,
              err |-> NoError,
              levels |-> b.levels]

\* MerkleTree.GetRootHash: the hex-encoded root hash.
GetRootHash(h, mt) ==
    IF mt.Root = NIL THEN <<>> ELSE HexEncodeToString(h[mt.Root].Hash)

--------------------------------------------------------------------------
(* GenerateProof *)

\* GenerateProof, "Handle odd number of leaves".
ProofPadLeaves(nodes) ==
    IF Len(nodes) % 2 # 0 THEN Append(nodes, Last(nodes)) ELSE nodes

\* ProofPadLevel duplicating the first node of the level in place of the last.
ProofPadLevelFirst(level) ==
    IF Len(level) % 2 # 0 /\ Len(level) > 1 THEN Append(level, level[1]) ELSE level

\* GenerateProof, "Handle odd number at this level".
ProofPadLevel(level) ==
    IF Len(level) % 2 # 0 /\ Len(level) > 1 THEN Append(level, Last(level)) ELSE level

\* ProofStep recording every sibling as sitting on the right.
ProofStepAlwaysRight(h, nodes, i, pr, currentIndex) ==
    IF i = currentIndex \/ i + 1 = currentIndex
    THEN IF i = currentIndex
         THEN [proof |-> [Hashes |-> Append(pr.Hashes, h[nodes[i + 2]].Hash),
                          Positions |-> Append(pr.Positions, TRUE)],
               currentIndex |-> i \div 2]
         ELSE [proof |-> [Hashes |-> Append(pr.Hashes, h[nodes[i + 1]].Hash),
                          Positions |-> Append(pr.Positions, TRUE)],
               currentIndex |-> i \div 2]
    ELSE [proof |-> pr, currentIndex |-> currentIndex]

\* GenerateProof, the body of "if i == currentIndex || i+1 == currentIndex":
\* the sibling's hash and side are appended and currentIndex becomes i / 2
\* (i is the 0-based index of the pair's left node).
ProofStep(h, nodes, i, pr, currentIndex) ==
    IF i = currentIndex \/ i + 1 = currentIndex
    THEN IF i = currentIndex
         THEN [proof |-> [Hashes |-> Append(pr.Hashes, h[nodes[i + 2]].Hash),
                          Positions |-> Append(pr.Positions, TRUE)],
               currentIndex |-> i \div 2]
         ELSE [proof |-> [Hashes |-> Append(pr.Hashes, h[nodes[i + 1]].Hash),
                          Positions |-> Append(pr.Positions, FALSE)],
               currentIndex |-> i \div 2]
    ELSE [proof |-> pr, currentIndex |-> currentIndex]

RECURSIVE ProofPairLoop(_, _, _, _, _, _)
\* GenerateProof, inner loop: for i := 0; i < len(nodes); i += 2.
ProofPairLoop(h, nodes, i, level, pr, currentIndex) ==
    IF i >= Len(nodes)
    THEN [heap |-> h, level |-> level, proof |-> pr, currentIndex |-> currentIndex]
    ELSE LET s == ProofStep(h, nodes, i, pr, currentIndex)
             r == NewMerkleNode(h, nodes[i + 1], nodes[i + 2], <<>>)
         IN  ProofPairLoop(r.heap, nodes, i + 2, Append(level, r.ptr),
                           s.proof, s.currentIndex)

RECURSIVE ProofLevelLoop(_, _, _, _, _)
\* GenerateProof, "Traverse up the tree": for len(nodes) > 1.  levels collects
\* the node list the loop holds at each level, for inspection.
ProofLevelLoop(h, nodes, pr, currentIndex, levels) ==
    IF Len(nodes) > 1
    THEN LET r == ProofPairLoop(h, nodes, 0, <<>>, pr, currentIndex)
             next == ProofPadLevel(r.level)
         IN  ProofLevelLoop(r.heap, next, r.proof, r.currentIndex,
                            Append(levels, next))
    ELSE [heap |-> h, nodes |-> nodes, proof |-> pr, levels |-> levels]

\* GenerateProof with the upper bound check written as txIndex > len.
GenerateProofOffByOne(h, mt, txIndex) ==
    IF txIndex < 0 \/ txIndex > Len(mt.Transactions)
    THEN [proof |-> <<>>, err |-> "transaction index out of bounds",
          heap |-> h, nodes |-> <<>>, levels |-> <<>>]
    ELSE LET nodes == ProofPadLeaves(mt.Leaves)
             r == ProofLevelLoop(h, nodes, [Hashes |-> <<>>, Positions |-> <<>>],
                                 txIndex, <<nodes>>)
         IN  [proof |-> <<r.proof>>, err |-> NoError,
              heap |-> r.heap, nodes |-> r.nodes, levels |-> r.levels]

\* MerkleTree.GenerateProof: (proof, error); heap, nodes and levels are the
\* function's local node lists and allocations, unreachable after it returns.
GenerateProof(h, mt, txIndex) ==
    IF txIndex < 0 \/ txIndex >= Len(mt.Transactions)
    THEN [proof |-> <<>>, err |-> "transaction index out of bounds",
          heap |-> h, nodes |-> <<>>, levels |-> <<>>]
    ELSE LET nodes == ProofPadLeaves(mt.Leaves)
             r == ProofLevelLoop(h, nodes, [Hashes |-> <<>>, Positions |-> <<>>],
                                 txIndex, <<nodes>>)
         IN  [proof |-> <<r.proof>>, err |-> NoError,
              heap |-> r.heap, nodes |-> r.nodes, levels |-> r.levels]

--------------------------------------------------------------------------
(* VerifyProof *)

\* VerifyStep with the two concatenation orders exchanged.
VerifyStepSwapped(currentHash, siblingHash, position) ==
    IF position
    THEN Sha256(siblingHash \o currentHash)
    ELSE Sha256(currentHash \o siblingHash)

\* VerifyStep that never looks at the side flag.
VerifyStepIgnoresSide(currentHash, siblingHash, position) ==
    Sha256(currentHash \o siblingHash)

\* VerifyProof, one round of the loop: the sibling is appended on the right
\* or on the left of the current hash and the concatenation is hashed.
VerifyStep(currentHash, siblingHash, position) ==
    IF position
    THEN Sha256(currentHash \o siblingHash)
    ELSE Sha256(siblingHash \o currentHash)

RECURSIVE VerifyLoop(_, _, _)
\* VerifyProof, for i, siblingHash := range proof.Hashes (i is 0-based);
\* proof.Positions[i] with i >= len(proof.Positions) panics.
VerifyLoop(currentHash, pr, i) ==
    IF i >= Len(pr.Hashes)
    THEN [panicked |-> FALSE, hash |-> currentHash]
    ELSE IF i >= Len(pr.Positions)
         THEN [panicked |-> TRUE, hash |-> currentHash]
         ELSE VerifyLoop(VerifyStep(currentHash, pr.Hashes[i + 1], pr.Positions[i + 1]),
                         pr, i + 1)

\* The first n elements of s (all of s when it is shorter).
Prefix(s, n) == SubSeq(s, 1, IF Len(s) < n THEN Len(s) ELSE n)

\* VerifyProof comparing only the first 16 hex characters, the length the
\* examples print.
VerifyProofPrefix(txHash, proofPtr, rootHash) ==
    IF proofPtr = <<>>
    THEN [panicked |-> TRUE, value |-> FALSE]
    ELSE LET r == VerifyLoop(txHash, proofPtr[1], 0)
         IN  IF r.panicked
             THEN [panicked |-> TRUE, value |-> FALSE]
             ELSE [panicked |-> FALSE,
                   value |-> Prefix(HexEncodeToString(r.hash), 16)
                                 = Prefix(HexEncodeToString(rootHash), 16)]

\* VerifyProof(txHash, proof, rootHash).  proof is a pointer: <<>> is nil, and
\* proof.Hashes on a nil pointer panics.  value is the boolean returned when
\* the call does not panic.
VerifyProof(txHash, proofPtr, rootHash) ==
    IF proofPtr = <<>>
    THEN [panicked |-> TRUE, value |-> FALSE]
    ELSE LET r == VerifyLoop(txHash, proofPtr[1], 0)
         IN  IF r.panicked
             THEN [panicked |-> TRUE, value |-> FALSE]
             ELSE [panicked |-> FALSE,
                   value |-> HexEncodeToString(r.hash) = HexEncodeToString(rootHash)]

--------------------------------------------------------------------------
(* Inputs *)

Max(S) == CHOOSE x \in S : \A y \in S : y <= x

SeqMax(s) == Max({0} \cup {s[k] : k \in 1..Len(s)})

RECURSIVE FirstUseSeqs(_)
\* The sequences of n transaction numbers in which the numbers are first used
\* in the order 1, 2, 3, ...: every pattern of equal and different
\* transactions of length n, each once.
FirstUseSeqs(n) ==
    IF n = 0 THEN {<<>>}
    ELSE UNION {{Append(s, v) : v \in 1..(SeqMax(s) + 1)} : s \in FirstUseSeqs(n - 1)}

\* The transaction sequence of a sequence of transaction numbers.
Txs(s) == [k \in 1..Len(s) |-> Tx(s[k])]

\* Transaction sequences of length 0..maxLen, one per pattern.
PatternInputs(maxLen) == {Txs(s) : s \in UNION {FirstUseSeqs(n) : n \in 0..maxLen}}

\* The transactions 1..n in order, for n in 1..maxLen: no two the same.
DistinctInputs(maxLen) == {Txs([k \in 1..n |-> k]) : n \in 1..maxLen}

\* Every sequence of length 0..maxLen over the transactions 1..maxLen.
AllInputs(maxLen) == {Txs(s) : s \in UNION {[1..n -> 1..maxLen] : n \in 0..maxLen}}

--------------------------------------------------------------------------
(* State machine *)

Init ==
    /\ heap = <<>>
    /\ tree = <<>>
    /\ treeErr = NoError
    /\ proof = <<>>
    /\ proofErr = NoError
    /\ proofIdx = -1
    /\ vcall = <<>>
    /\ vres = <<>>
    /\ other = <<>>
    /\ otherErr = NoError
    /\ calls = <<>>
    /\ serial = <<>>
    /\ account = [Balance |-> 0, Transactions |-> <<>>]
    /\ applyErr = NoError

\* tree, err := NewMerkleTree(transactions), once per run.
DoBuild(transactions) ==
    /\ tree = <<>>
    /\ treeErr = NoError
    /\ LET r == NewMerkleTree(heap, transactions)
       IN  /\ heap' = r.heap
           /\ tree' = r.tree
           /\ treeErr' = r.err
    /\ UNCHANGED <<proof, proofErr, proofIdx, vcall, vres, other, otherErr>>
    /\ UNCHANGED restVars

Build ==
    \E transactions \in PatternInputs(MaxLeaves) \cup DistinctInputs(MaxDistinctLeaves) :
        DoBuild(transactions)

BuildForTamper ==
    \E transactions \in PatternInputs(MaxTamperPatternLeaves)
                            \cup DistinctInputs(MaxTamperLeaves) :
        DoBuild(transactions)

BuildFirst == \E transactions \in PatternInputs(MaxPairLeaves) : DoBuild(transactions)

\* A second tree, independent of the first: other, err := NewMerkleTree(...).
BuildOther ==
    /\ tree # <<>>
    /\ other = <<>>
    /\ otherErr = NoError
    /\ \E transactions \in AllInputs(MaxPairLeaves) :
          LET r == NewMerkleTree(heap, transactions)
          IN  /\ heap' = r.heap
              /\ other' = r.tree
              /\ otherErr' = r.err
    /\ UNCHANGED <<tree, treeErr, proof, proofErr, proofIdx, vcall, vres>>
    /\ UNCHANGED restVars

\* proof, err := tree.GenerateProof(txIndex).  The nodes GenerateProof
\* allocates are unreachable once it returns, so the heap keeps only the tree.
\* The record of the last VerifyProof call is dropped with the old proof.
DoProve(txIndex) ==
    /\ tree # <<>>
    /\ LET r == GenerateProof(heap, tree[1], txIndex)
       IN  /\ proof' = r.proof
           /\ proofErr' = r.err
    /\ proofIdx' = txIndex
    /\ vcall' = <<>>
    /\ vres' = <<>>
    /\ UNCHANGED <<heap, tree, treeErr, other, otherErr>>
    /\ UNCHANGED restVars

Prove == \E txIndex \in -1..MaxDistinctLeaves : DoProve(txIndex)

ProveForTamper == \E txIndex \in -1..MaxTamperLeaves : DoProve(txIndex)

\* isValid := VerifyProof(txHash, p, rootHash); the arguments and the outcome
\* of the last call are kept.  Any number of calls may follow one another.
DoVerify(txHash, p, rootHash) ==
    /\ vcall' = <<[txHash |-> txHash, proof |-> p, rootHash |-> rootHash]>>
    /\ vres' = <<VerifyProof(txHash, p, rootHash)>>
    /\ UNCHANGED <<heap, tree, treeErr, proof, proofErr, proofIdx, other, otherErr>>
    /\ UNCHANGED restVars

\* As in the examples: VerifyProof(transactions[j].Hash(), proof, tree.Root.Hash)
\* with the proof last generated, for the proved transaction or another one.
VerifyTx ==
    /\ tree # <<>>
    /\ proof # <<>>
    /\ \E j \in 1..Len(tree[1].Transactions) :
          DoVerify(TxHash(tree[1].Transactions[j]), proof, heap[tree[1].Root].Hash)

Next == Build \/ Prove \/ VerifyTx

Spec == Init /\ [][Next]_vars

\* Digests a caller may hand to VerifyProof: the digests of the transactions
\* of the tree and of one transaction that is not in it, the hash of every
\* node of the tree, and the empty digest.
Digests ==
    {TxHash(Tx(k)) : k \in 1..(Len(tree[1].Transactions) + 1)}
        \cup {heap[p].Hash : p \in 1..Len(heap)}
        \cup {<<>>}

\* s without its last element (s itself when empty).
Front(s) == IF s = <<>> THEN s ELSE SubSeq(s, 1, Len(s) - 1)

\* s without its first element (s itself when empty).
Rest(s) == IF s = <<>> THEN s ELSE Tail(s)

\* The proofs a caller may build from a generated proof pr: pr itself, one
\* hash replaced, one side flag flipped, Positions one shorter or one longer
\* than Hashes, the last entry dropped, the first entry dropped.
ProofVariants(pr) ==
    {pr}
        \cup {[pr EXCEPT !.Hashes[k] = d] : k \in 1..Len(pr.Hashes), d \in Digests}
        \cup {[pr EXCEPT !.Positions[k] = ~pr.Positions[k]] : k \in 1..Len(pr.Positions)}
        \cup {[pr EXCEPT !.Positions = Front(pr.Positions)],
              [pr EXCEPT !.Positions = Append(pr.Positions, TRUE)],
              [Hashes |-> Front(pr.Hashes), Positions |-> Front(pr.Positions)],
              [Hashes |-> Rest(pr.Hashes), Positions |-> Rest(pr.Positions)]}

\* The *MerkleProof values handed to VerifyProof: nil, the empty proof, and
\* the variants of the proof last generated.
ProofInputs ==
    {<<>>, <<[Hashes |-> <<>>, Positions |-> <<>>]>>}
        \cup (IF proof = <<>> THEN {} ELSE {<<v>> : v \in ProofVariants(proof[1])})

\* VerifyProof on data the caller does not trust, against the tree's root.
VerifyAny ==
    /\ tree # <<>>
    /\ \E txHash \in Digests, p \in ProofInputs :
          DoVerify(txHash, p, heap[tree[1].Root].Hash)

NextTamper == BuildForTamper \/ ProveForTamper \/ VerifyAny

SpecTamper == Init /\ [][NextTamper]_vars

NextPair == BuildFirst \/ BuildOther

SpecPair == Init /\ [][NextPair]_vars

--------------------------------------------------------------------------
(* State functions used by the properties *)

\* The tree built, its transactions, their number and its root hash.
T == tree[1]

NumLeaves == Len(T.Transactions)

RootHash == heap[T.Root].Hash

\* transactions[i].Hash() for the 0-based index i.
LeafDigest(i) == TxHash(T.Transactions[i + 1])

\* A proof was generated for the valid index proofIdx.
Proved == tree # <<>> /\ proof # <<>>

\* A VerifyProof call against the tree's root was observed.
Verified == tree # <<>> /\ vcall # <<>> /\ vcall[1].rootHash = RootHash

\* The observed call returned b (and did not panic).
Returned(b) == vres # <<>> /\ ~vres[1].panicked /\ vres[1].value = b

\* The transactions of the tree have pairwise different digests.
DistinctDigests(mt) ==
    \A a, b \in 1..Len(mt.Transactions) :
        a # b => TxHash(mt.Transactions[a]) # TxHash(mt.Transactions[b])

RECURSIVE Pow2(_)
Pow2(k) == IF k = 0 THEN 1 ELSE 2 * Pow2(k - 1)

\* The least k with 2^k >= n, for n >= 1.
CeilLog2(n) == CHOOSE k \in 0..n : Pow2(k) >= n /\ (k = 0 \/ Pow2(k - 1) < n)

RECURSIVE Depth(_, _)
\* The number of levels below node p in the node graph of the tree.
Depth(h, p) == IF h[p].Left = NIL THEN 0 ELSE 1 + Depth(h, h[p].Left)

RECURSIVE NodeAt(_, _, _, _, _)
\* The node of the tree rooted at root (of depth d) that sits at level lvl
\* (0 = leaves) at 0-based position x, found by walking down from the root.
NodeAt(h, root, d, lvl, x) ==
    IF lvl = d THEN root
    ELSE LET par == NodeAt(h, root, d, lvl + 1, x \div 2)
         IN  IF x % 2 = 0 THEN h[par].Left ELSE h[par].Right

\* The hash of the tree's node at level lvl, position x.
TreeHashAt(lvl, x) == heap[NodeAt(heap, T.Root, Depth(heap, T.Root), lvl, x)].Hash

\* The position of the node next to position x in its pair.
SiblingOf(x) == IF x % 2 = 0 THEN x + 1 ELSE x - 1

\* The positions at which two sequences of the same length differ.
DiffAt(s, t) == {k \in 1..Len(s) : s[k] # t[k]}

--------------------------------------------------------------------------
(* Properties *)

\* C1 (round trip): whenever VerifyProof is called with the digest of the
\* transaction at index i, the proof GenerateProof(i) returned and the tree's
\* root hash, it returns true, for every tree size including odd ones and 1.
RoundTrip ==
    (Proved /\ Verified /\ vcall[1].proof = proof
            /\ vcall[1].txHash = LeafDigest(proofIdx))
        => Returned(TRUE)

\* C1 witness: the last leaf of a seven-leaf tree was proved and its
\* three-entry proof verified true.
RoundTripWitness ==
    /\ Proved /\ Verified
    /\ NumLeaves = 7 /\ proofIdx = 6 /\ Len(proof[1].Hashes) = 3
    /\ vcall[1].proof = proof /\ vcall[1].txHash = LeafDigest(6)
    /\ Returned(TRUE)

\* The observed call used the digest of the proved transaction and a proof
\* with as many hashes and flags as the generated one.
SameShapeCall ==
    /\ Proved /\ Verified
    /\ vcall[1].proof # <<>>
    /\ Len(vcall[1].proof[1].Hashes) = Len(proof[1].Hashes)
    /\ Len(vcall[1].proof[1].Positions) = Len(proof[1].Positions)

\* The observed call differs from the honest one in exactly one hash of the proof.
OneHashReplaced ==
    /\ SameShapeCall
    /\ vcall[1].txHash = LeafDigest(proofIdx)
    /\ vcall[1].proof[1].Positions = proof[1].Positions
    /\ Cardinality(DiffAt(vcall[1].proof[1].Hashes, proof[1].Hashes)) = 1

\* The observed call differs from the honest one in the leaf digest only.
LeafReplaced ==
    /\ Proved /\ Verified
    /\ vcall[1].proof = proof
    /\ vcall[1].txHash # LeafDigest(proofIdx)

\* C2 (tamper detection on digests): with the generated proof and the tree's
\* root, VerifyProof returns false when the leaf digest is replaced by any
\* other digest, and when any one hash of the proof is replaced by another.
TamperedDigestRejected ==
    (LeafReplaced \/ OneHashReplaced) => Returned(FALSE)

\* C2 witness: on a three-leaf tree the second hash of the proof of the last
\* leaf was replaced, and VerifyProof returned false.
TamperedDigestWitness ==
    /\ OneHashReplaced
    /\ NumLeaves = 3 /\ proofIdx = 2
    /\ DiffAt(vcall[1].proof[1].Hashes, proof[1].Hashes) = {2}
    /\ Returned(FALSE)

\* The observed call differs from the honest one in exactly one side flag.
OneFlagFlipped ==
    /\ SameShapeCall
    /\ vcall[1].txHash = LeafDigest(proofIdx)
    /\ vcall[1].proof[1].Hashes = proof[1].Hashes
    /\ Cardinality(DiffAt(vcall[1].proof[1].Positions, proof[1].Positions)) = 1

\* The level (1 = leaf level) whose side flag was flipped.
FlippedLevel ==
    CHOOSE k \in DiffAt(vcall[1].proof[1].Positions, proof[1].Positions) : TRUE

\* C3 as claimed: flipping any one side flag of the generated proof makes
\* VerifyProof return false, at every level.
FlippedFlagRejected ==
    OneFlagFlipped => Returned(FALSE)

\* C3 as amended: flipping the side flag of level k makes VerifyProof return
\* false exactly when the sibling hash of that level differs from the hash of
\* the path node of that level; when the two are equal (the sibling is the
\* duplicated copy of the path node, or a neighbour with the same digest) the
\* flipped proof still verifies true.
FlippedFlagRejectedUnlessEqual ==
    OneFlagFlipped =>
        LET k == FlippedLevel
            pathHash == TreeHashAt(k - 1, proofIdx \div Pow2(k - 1))
        IN  IF proof[1].Hashes[k] # pathHash
            THEN Returned(FALSE)
            ELSE Returned(TRUE)

\* C3 witness: on a three-leaf tree the flag of the second level of the proof
\* of the first leaf was flipped, the sibling there differs from the path
\* node, and VerifyProof returned false.
FlippedFlagWitness ==
    /\ OneFlagFlipped
    /\ NumLeaves = 3 /\ proofIdx = 0 /\ FlippedLevel = 2
    /\ proof[1].Hashes[2] # TreeHashAt(1, 0)
    /\ Returned(FALSE)

\* The digests of the transactions of a tree, in order.
LeafDigests(mt) == [k \in 1..Len(mt.Transactions) |-> TxHash(mt.Transactions[k])]

\* Two trees were built.
BothBuilt == tree # <<>> /\ other # <<>>

OtherRootHash == heap[other[1].Root].Hash

\* C4 as claimed: two trees built from different non-empty sequences of leaf
\* digests (different in content, order or length) have different root hashes.
DifferentLeavesDifferentRoot ==
    (BothBuilt /\ LeafDigests(T) # LeafDigests(other[1])) => RootHash # OtherRootHash

\* The empty proof.
EmptyProof == [Hashes |-> <<>>, Positions |-> <<>>]

\* C5 as claimed: for a tree of exactly one transaction with digest d the root
\* hash is d itself, GenerateProof(0) is the empty proof, and
\* VerifyProof(d, empty proof, root) returns true.
SingleLeafBoundary ==
    (tree # <<>> /\ NumLeaves = 1) =>
        /\ RootHash = LeafDigest(0)
        /\ (Proved /\ proofIdx = 0) => proof[1] = EmptyProof
        /\ (Verified /\ vcall[1].txHash = LeafDigest(0) /\ vcall[1].proof = <<EmptyProof>>)
               => Returned(TRUE)

\* C6 as claimed: VerifyProof returns a boolean for every leaf digest, proof
\* and root, however malformed; it never panics.
VerifyProofTotal ==
    vres # <<>> => ~vres[1].panicked

\* C7 as claimed: the proof for a valid index of a tree of n >= 1 leaves has
\* exactly ceil(log2(n)) hashes (0 for n = 1) and as many side flags.
ProofLengthIsCeilLog2 ==
    Proved =>
        /\ Len(proof[1].Hashes) = CeilLog2(NumLeaves)
        /\ Len(proof[1].Positions) = CeilLog2(NumLeaves)

\* C8 (proof contents): entry k of GenerateProof(i) is the hash of the tree
\* node next to the path node of level k (at the leaf level the neighbouring
\* transaction's digest itself), flagged right exactly when the path node's
\* position at that level is even; for four leaves the root is
\* Hash(Hash(d0||d1)||Hash(d2||d3)), GenerateProof(1) is
\* [(d0, left), (Hash(d2||d3), right)], it verifies with d1 and, d0 being a
\* different digest, not with d0.
ProofContents ==
    Proved =>
        /\ Len(proof[1].Hashes) = Depth(heap, T.Root)
        /\ Len(proof[1].Positions) = Len(proof[1].Hashes)
        /\ \A k \in 1..Len(proof[1].Hashes) :
              LET x == proofIdx \div Pow2(k - 1)
              IN  /\ proof[1].Hashes[k] = TreeHashAt(k - 1, SiblingOf(x))
                  /\ proof[1].Positions[k] = (x % 2 = 0)
        /\ LET y == SiblingOf(proofIdx)
           IN  proof[1].Hashes[1] = LeafDigest(IF y >= NumLeaves THEN NumLeaves - 1 ELSE y)
        /\ NumLeaves = 4 =>
              LET d0 == LeafDigest(0)
                  d1 == LeafDigest(1)
                  d2 == LeafDigest(2)
                  d3 == LeafDigest(3)
              IN  /\ RootHash = Sha256(Sha256(d0 \o d1) \o Sha256(d2 \o d3))
                  /\ proofIdx = 1 =>
                        /\ proof[1] = [Hashes |-> <<d0, Sha256(d2 \o d3)>>,
                                       Positions |-> <<FALSE, TRUE>>]
                        /\ (Verified /\ vcall[1].proof = proof /\ vcall[1].txHash = d1)
                               => Returned(TRUE)
                        /\ (Verified /\ vcall[1].proof = proof /\ vcall[1].txHash = d0
                                     /\ d0 # d1)
                               => Returned(FALSE)

\* C8 witness: on four distinct leaves the proof of index 1 was generated and
\* VerifyProof, called with d0 and that proof, returned false.
ProofContentsWitness ==
    /\ Proved /\ Verified
    /\ NumLeaves = 4 /\ DistinctDigests(T) /\ proofIdx = 1
    /\ vcall[1].proof = proof /\ vcall[1].txHash = LeafDigest(0)
    /\ Returned(FALSE)

\* C9 (odd-leaf handling): in a tree of an odd number n > 1 of leaves with
\* distinct digests, the proof of the last leaf verifies true, and it is not
\* the proof GenerateProof returns for any other index.
OddLastLeaf ==
    (Proved /\ NumLeaves > 1 /\ NumLeaves % 2 = 1 /\ DistinctDigests(T)) =>
        /\ (proofIdx = NumLeaves - 1 /\ Verified /\ vcall[1].proof = proof
                /\ vcall[1].txHash = LeafDigest(proofIdx))
              => Returned(TRUE)
        /\ \A j \in 0..(NumLeaves - 1) :
              (j # proofIdx /\ (j = NumLeaves - 1 \/ proofIdx = NumLeaves - 1))
                  => GenerateProof(heap, T, j).proof # proof

\* C9 witness: the last of five distinct leaves was proved and verified true.
OddLastLeafWitness ==
    /\ Proved /\ Verified
    /\ NumLeaves = 5 /\ DistinctDigests(T) /\ proofIdx = 4
    /\ vcall[1].proof = proof /\ vcall[1].txHash = LeafDigest(4)
    /\ Returned(TRUE)
    /\ \A j \in 0..3 : GenerateProof(heap, T, j).proof # proof

\* s is t with its elements in another order.
IsReordering(s, t) ==
    /\ Len(s) = Len(t)
    /\ s # t
    /\ \E f \in [1..Len(t) -> 1..Len(t)] :
          /\ \A a, b \in 1..Len(t) : a # b => f[a] # f[b]
          /\ \A k \in 1..Len(t) : s[k] = t[f[k]]

\* C10 (order sensitivity): a tree built from n >= 2 pairwise distinct leaf
\* digests and a tree built from the same digests in any other order have
\* different root hashes.
OrderSensitive ==
    (BothBuilt /\ NumLeaves >= 2 /\ DistinctDigests(T)
         /\ IsReordering(LeafDigests(other[1]), LeafDigests(T)))
        => RootHash # OtherRootHash

\* C10 witness: the second tree was built from the reversal of four distinct
\* transactions, and the roots differ.
OrderSensitiveWitness ==
    /\ BothBuilt /\ NumLeaves = 4 /\ DistinctDigests(T)
    /\ Len(other[1].Transactions) = 4
    /\ \A k \in 1..4 : other[1].Transactions[k] = T.Transactions[5 - k]
    /\ RootHash # OtherRootHash
--------------------------------------------------------------------------
(* Error handling *)

\* The transaction sequences NewMerkleTree is called with under Spec.
BuildInputs == PatternInputs(MaxLeaves) \cup DistinctInputs(MaxDistinctLeaves)

\* C11: NewMerkleTree called with zero transactions returns an error and a nil
\* tree and allocates nothing; called with at least one transaction it returns
\* a tree over these transactions and no error.
EmptyInputError ==
    [][\A transactions \in BuildInputs :
          DoBuild(transactions) =>
              IF Len(transactions) = 0
              THEN tree' = <<>> /\ treeErr' # NoError /\ heap' = heap
              ELSE /\ tree' # <<>>
                   /\ treeErr' = NoError
                   /\ tree'[1].Transactions = transactions
                   /\ tree'[1].Root # NIL]_vars

\* NewMerkleTree has been called with no transactions and has failed.
EmptyInputWitness == tree = <<>> /\ treeErr # NoError /\ heap = <<>>

\* The indices GenerateProof is called with under Spec.
ProveInputs == -1..MaxDistinctLeaves

\* C12: on a tree with n leaves GenerateProof(i) returns an error and a nil
\* proof exactly when i < 0 or i >= n, and then it allocates nothing and the
\* tree and every node are what they were; for 0 <= i < n it returns a proof
\* and no error, and the nodes that existed before the call are unchanged.
IndexOutOfRangeError ==
    [][\A txIndex \in ProveInputs :
          DoProve(txIndex) =>
              LET n == Len(tree[1].Transactions)
                  r == GenerateProof(heap, tree[1], txIndex)
              IN  /\ tree' = tree
                  /\ heap' = heap
                  /\ SubSeq(r.heap, 1, Len(heap)) = heap
                  /\ IF txIndex < 0 \/ txIndex >= n
                     THEN proof' = <<>> /\ proofErr' # NoError /\ r.heap = heap
                     ELSE proof' # <<>> /\ proofErr' = NoError]_vars

\* GenerateProof has been called with the index n on a tree of n = 3 leaves
\* and has failed.
IndexOutOfRangeWitness ==
    /\ tree # <<>>
    /\ NumLeaves = 3
    /\ proofIdx = NumLeaves
    /\ proof = <<>>
    /\ proofErr # NoError

--------------------------------------------------------------------------
(* Construction and proof generation build the same levels *)

\* The digests of the nodes of one level, the pointers read in the heap h.
LevelDigests(h, level) == [k \in 1..Len(level) |-> h[level[k]].Hash]

\* The levels NewMerkleTree held while it built the tree of the state: the
\* construction run again on the same transactions, from the empty heap the
\* tree was built on.
Built == NewMerkleTree(<<>>, T.Transactions)

\* GenerateProof run on the tree of the state for the index last requested.
Rebuilt == GenerateProof(heap, T, proofIdx)

\* C14: for every valid index, the levels GenerateProof rebuilds (the padded
\* leaf level, then every padded parent level) have, level by level, the same
\* number of nodes and the same digests as the levels NewMerkleTree built, and
\* the single node GenerateProof ends with has the digest of tree.Root.
ShapeAgreement ==
    Proved =>
        /\ Built.tree = tree
        /\ Built.heap = heap
        /\ Len(Rebuilt.levels) = Len(Built.levels)
        /\ \A l \in 1..Len(Built.levels) :
              /\ Len(Rebuilt.levels[l]) = Len(Built.levels[l])
              /\ LevelDigests(Rebuilt.heap, Rebuilt.levels[l])
                    = LevelDigests(Built.heap, Built.levels[l])
        /\ Len(Rebuilt.nodes) = 1
        /\ Rebuilt.heap[Rebuilt.nodes[1]].Hash = heap[T.Root].Hash

\* A proof has been generated on a tree of 5 leaves, whose levels hold 6, 4, 2
\* and 1 nodes: the leaf level and the next level are both padded.
ShapeAgreementWitness ==
    /\ Proved
    /\ NumLeaves = 5
    /\ proofIdx = 4
    /\ [l \in 1..Len(Rebuilt.levels) |-> Len(Rebuilt.levels[l])] = <<6, 4, 2, 1>>

--------------------------------------------------------------------------
(* Ownership of the nodes *)

\* The child slots (parent, side) that hold a pointer to the node q.
SlotsOf(q) ==
    {sl \in (1..Len(heap)) \X {"Left", "Right"} : heap[sl[1]][sl[2]] = q}

\* The nodes reachable from ptr through Left and Right, ptr included.
RECURSIVE Reachable(_)
Reachable(ptr) ==
    IF ptr = NIL THEN {}
    ELSE {ptr} \cup Reachable(heap[ptr].Left) \cup Reachable(heap[ptr].Right)

\* C15: in every tree built by NewMerkleTree no node reachable from Root is
\* held by more than one child slot: none is both the Left and the Right
\* child of a parent, none is a child of two parents.
SingleOwnership ==
    tree # <<>> => \A q \in Reachable(T.Root) : Cardinality(SlotsOf(q)) <= 1

--------------------------------------------------------------------------
(* Membership *)

\* C17: VerifyProof(h, p, tree.Root.Hash) returns true only if h is the digest
\* of one of the transactions of the tree; for the digest of an internal node
\* or of the root it returns false with every proof, a shortened or an empty
\* one included.
MembershipSoundness ==
    (Verified /\ Returned(TRUE)) =>
        \E i \in 0..(NumLeaves - 1) : vcall[1].txHash = LeafDigest(i)

--------------------------------------------------------------------------
(* Leaf serialization *)

\* Field values with and without the characters String() puts between the
\* fields: "A", "A:B"; "C", "B:C", "C->D"; "E", "D->E".
SerialIDs == {<<65>>, <<65, 58, 66>>}

SerialFroms == {<<67>>, <<66, 58, 67>>, <<67, 45, 62, 68>>}

SerialTos == {<<69>>, <<68, 45, 62, 69>>}

\* Amounts in thousandths: 1.001, 1.002 and 2.
SerialAmounts == {1001, 1002, 2000}

\* The transactions hashed under SpecSerial.
SerialTxs ==
    [ID : SerialIDs, From : SerialFroms, To : SerialTos, Amount : SerialAmounts]

\* t.Hash() for one more transaction; the transaction, the string hashed and
\* the digest are kept.
HashTx ==
    /\ Len(serial) < MaxHashed
    /\ \E t \in SerialTxs :
          serial' = Append(serial, [tx |-> t, str |-> String(t), hash |-> TxHash(t)])
    /\ UNCHANGED <<heap, tree, treeErr, proof, proofErr, proofIdx, vcall, vres,
                   other, otherErr, calls, account, applyErr>>

NextSerial == HashTx

SpecSerial == Init /\ [][NextSerial]_vars

\* C16: two transactions that differ in a field (ID, From, To or Amount) never
\* serialize to the same string and never have the same leaf digest.
SerializationInjective ==
    \A a, b \in 1..Len(serial) :
        serial[a].tx # serial[b].tx =>
            serial[a].str # serial[b].str /\ serial[a].hash # serial[b].hash

--------------------------------------------------------------------------
(* Ledger account (generating-keypair/main.go) *)

Credit == "credit"

Debit == "debit"

\* Account.ApplyTransaction: the account after the call and the error
\* returned.  Amounts and Balance are whole numbers, which float64 holds
\* exactly in the range used.
ApplyTransaction(a, t) ==
    IF t.Type = Credit
    THEN [account |-> [Balance |-> a.Balance + t.Amount,
                       Transactions |-> Append(a.Transactions, t)],
          err |-> NoError]
    ELSE IF t.Type = Debit
    THEN IF t.Amount > a.Balance
         THEN [account |-> a, err |-> "insufficient funds for tx"]
         ELSE [account |-> [Balance |-> a.Balance - t.Amount,
                            Transactions |-> Append(a.Transactions, t)],
               err |-> NoError]
    ELSE [account |-> a, err |-> "unknown transaction type"]

\* The transactions handed to ApplyTransaction: any of the two types or another
\* one, any amount from -MaxAmount to MaxAmount.
LedgerTxs ==
    [Type : {Credit, Debit, "refund"}, Amount : (-MaxAmount)..MaxAmount]

\* err := account.ApplyTransaction(tx).
DoApply ==
    /\ Len(account.Transactions) < MaxApplied
    /\ \E t \in LedgerTxs :
          LET r == ApplyTransaction(account, t)
          IN  /\ account' = r.account
              /\ applyErr' = r.err
    /\ UNCHANGED <<heap, tree, treeErr, proof, proofErr, proofIdx, vcall, vres,
                   other, otherErr, calls, serial>>

NextLedger == DoApply

SpecLedger == Init /\ [][NextLedger]_vars

\* C18: starting from Balance 0 and no transactions, Balance is never negative
\* after any sequence of ApplyTransaction calls.
BalanceNeverNegative == account.Balance >= 0

--------------------------------------------------------------------------
(* GenerateProof and GetRootHash calls interleaved on one tree *)

\* A call of GenerateProof or GetRootHash in progress: its position (pc), the
\* locals of GenerateProof (nodes, level, i, currentIndex, proof), the nodes it
\* has allocated (arena) and, once it has returned, what it returned.  A
\* pointer above Len(heap) points into the arena of the call: a call sees the
\* memory heap \o arena.
NewCall(op, txIndex) ==
    [op |-> op, txIndex |-> txIndex, pc |-> "done",
     nodes |-> <<>>, level |-> <<>>, i |-> 0, currentIndex |-> txIndex,
     proof |-> [Hashes |-> <<>>, Positions |-> <<>>], arena |-> <<>>,
     result |-> <<>>, err |-> NoError]

\* The entry of GenerateProof written with the padding applied to mt.Leaves
\* itself: mt.Leaves = append(mt.Leaves, mt.Leaves[len(mt.Leaves)-1]).
GenerateProofEntryInPlace(mt, txIndex) ==
    IF txIndex < 0 \/ txIndex >= Len(mt.Transactions)
    THEN [mt |-> mt,
          call |-> [NewCall("GenerateProof", txIndex)
                      EXCEPT !.err = "transaction index out of bounds"]]
    ELSE LET padded == ProofPadLeaves(mt.Leaves)
         IN  [mt |-> [mt EXCEPT !.Leaves = padded],
              call |-> [NewCall("GenerateProof", txIndex)
                          EXCEPT !.pc = "pair", !.nodes = padded]]

\* GenerateProof up to its level loop: the bounds check, the empty proof,
\* currentIndex, the copy of mt.Leaves and its padding.  mt is the tree as the
\* call leaves it.
GenerateProofEntry(mt, txIndex) ==
    IF txIndex < 0 \/ txIndex >= Len(mt.Transactions)
    THEN [mt |-> mt,
          call |-> [NewCall("GenerateProof", txIndex)
                      EXCEPT !.err = "transaction index out of bounds"]]
    ELSE [mt |-> mt,
          call |-> [NewCall("GenerateProof", txIndex)
                      EXCEPT !.pc = "pair", !.nodes = ProofPadLeaves(mt.Leaves)]]

\* One pass of GenerateProof's inner loop for the call c (i < len(nodes)):
\* the sibling is recorded, the parent node allocated.  mem is heap \o arena
\* after the pass.
PairPass(h, c) ==
    LET s == ProofStep(h \o c.arena, c.nodes, c.i, c.proof, c.currentIndex)
        r == NewMerkleNode(h \o c.arena, c.nodes[c.i + 1], c.nodes[c.i + 2], <<>>)
    IN  [mem |-> r.heap,
         call |-> [c EXCEPT !.level = Append(c.level, r.ptr),
                            !.i = c.i + 2,
                            !.proof = s.proof,
                            !.currentIndex = s.currentIndex,
                            !.arena = SubSeq(r.heap, Len(h) + 1, Len(r.heap))]]

\* The end of a level for the call c (i >= len(nodes)): the level is padded and
\* becomes nodes; with one node left the loop ends and the proof is returned.
LevelEnd(c) ==
    LET next == ProofPadLevel(c.level)
    IN  IF Len(next) > 1
        THEN [c EXCEPT !.nodes = next, !.level = <<>>, !.i = 0]
        ELSE [c EXCEPT !.pc = "done", !.nodes = <<>>, !.level = <<>>, !.i = 0,
                       !.arena = <<>>, !.result = <<c.proof>>]

BuildForConc == \E transactions \in DistinctInputs(MaxConcLeaves) : DoBuild(transactions)

\* A caller enters tree.GenerateProof(txIndex).
CallGenerateProof ==
    /\ tree # <<>>
    /\ Len(calls) < MaxCalls
    /\ \E txIndex \in -1..MaxConcLeaves :
          LET r == GenerateProofEntry(tree[1], txIndex)
          IN  /\ tree' = <<r.mt>>
              /\ calls' = Append(calls, r.call)
    /\ UNCHANGED <<heap, treeErr, proof, proofErr, proofIdx, vcall, vres,
                   other, otherErr, serial, account, applyErr>>

\* A caller runs tree.GetRootHash().
CallGetRootHash ==
    /\ tree # <<>>
    /\ Len(calls) < MaxCalls
    /\ calls' = Append(calls, [NewCall("GetRootHash", 0)
                                 EXCEPT !.result = <<GetRootHash(heap, tree[1])>>])
    /\ UNCHANGED <<heap, tree, treeErr, proof, proofErr, proofIdx, vcall, vres,
                   other, otherErr, serial, account, applyErr>>

\* A GenerateProof call in progress runs one pass of its inner loop.
PairStep ==
    \E k \in 1..Len(calls) :
        /\ calls[k].pc = "pair"
        /\ calls[k].i < Len(calls[k].nodes)
        /\ LET r == PairPass(heap, calls[k])
           IN  /\ heap' = SubSeq(r.mem, 1, Len(heap))
               /\ calls' = [calls EXCEPT ![k] = r.call]
        /\ UNCHANGED <<tree, treeErr, proof, proofErr, proofIdx, vcall, vres,
                       other, otherErr, serial, account, applyErr>>

\* A GenerateProof call in progress ends a level, or returns.
EndLevel ==
    \E k \in 1..Len(calls) :
        /\ calls[k].pc = "pair"
        /\ calls[k].i >= Len(calls[k].nodes)
        /\ calls' = [calls EXCEPT ![k] = LevelEnd(calls[k])]
        /\ UNCHANGED <<heap, tree, treeErr, proof, proofErr, proofIdx, vcall, vres,
                       other, otherErr, serial, account, applyErr>>

NextConc == BuildForConc \/ CallGenerateProof \/ CallGetRootHash \/ PairStep \/ EndLevel

SpecConc == Init /\ [][NextConc]_vars

\* What the call c returns when it runs alone on the tree of the state.
Alone(h, mt, c) ==
    IF c.op = "GetRootHash"
    THEN [result |-> <<GetRootHash(h, mt)>>, err |-> NoError]
    ELSE LET r == GenerateProof(h, mt, c.txIndex)
         IN  [result |-> r.proof, err |-> r.err]

\* C13: while GenerateProof and GetRootHash calls run interleaved on a built
\* tree, no step writes a field of the tree (Root, Leaves, Transactions) or of
\* a node (Hash, Left, Right), and every call that has returned has returned
\* what it returns when run alone.
ConcurrentReads ==
    [][tree # <<>> =>
          /\ tree' = tree
          /\ heap' = heap
          /\ \A k \in 1..Len(calls') :
                calls'[k].pc = "done" =>
                    /\ calls'[k].result = Alone(heap, tree[1], calls'[k]).result
                    /\ calls'[k].err = Alone(heap, tree[1], calls'[k]).err]_vars

\* On a tree of 3 leaves, the second GenerateProof call has returned its proof
\* of two entries while the first, entered before it, is still in its second
\* level with three nodes allocated.
ConcurrentReadsWitness ==
    /\ tree # <<>>
    /\ NumLeaves = 3
    /\ Len(calls) = 2
    /\ calls[1].op = "GenerateProof"
    /\ calls[1].pc = "pair"
    /\ Len(calls[1].arena) = 3
    /\ calls[2].op = "GenerateProof"
    /\ calls[2].pc = "done"
    /\ calls[2].txIndex = 2
    /\ calls[2].result # <<>>
    /\ Len(calls[2].result[1].Hashes) = 2

==========================================================================
